---- MODULE Spec2Model ----
(***************************************************************************)
(* Locale access layer of the course builder: the route handlers for      *)
(* courses, course locales, modules and module locales, run as concurrent *)
(* request handlers against one relational store (READ COMMITTED          *)
(* transactions, one pooled connection per transaction).                   *)
(***************************************************************************)
EXTENDS Integers, Sequences, FiniteSets, TLC

\* ------------------------------------------------------------------ bounds

\* Connections of the process-wide pool.
PoolSize == 3
\* Course ids the store can hand out (two courses exist initially).
MaxCourses == 3
\* Module ids the store can hand out.
MaxModules == 6
\* Requests of the course page in flight when the user acts.
MaxInFlight == 3
\* Write requests the user of the course page submits.
MaxWrites == 2

\* --------------------------------------------------------------- constants

TitleLimit == 120
DescLimit == 4000
CreateDescLimit == 2000

\* Fault variant: the set of languages also holds "xx".
ALLOWED_Wider == {"ru", "en", "he", "xx"}

ALLOWED == {"ru", "en", "he"}

\* process.env.DEV_USER_ID: one acting user per running process.
DEV_USER_ID == "u1"

\* Two request handlers run concurrently, each serving one request.
Reqs == {1, 2}
CourseIds == 1..MaxCourses
\* The courses the requests name: one of the acting user, one of another
\* user, and the first id still unused.
CourseTargets == {1, 2, 3}
ModuleIds == 1..MaxModules
\* The modules the module-locale requests name: one of a course of another
\* user, one of a course of the acting user, and the first id still unused.
ModuleTargets == {1, 2, 5}

\* ----------------------------------------------------------------- strings
\* A JSON body field is Nil (missing or null), a number, or a string.  A
\* string is a prefix of a named text: its text and its length in characters.

S(b, n) == [type |-> "str", base |-> b, len |-> n]
Nil == [type |-> "nil", base |-> "", len |-> 0]
Num == [type |-> "num", base |-> "7", len |-> 1]
Throw == [type |-> "throw", base |-> "", len |-> 0]
EmptyStr == S("", 0)

\* s.slice(0, n)
Slice(s, n) == [s EXCEPT !.len = IF s.len < n THEN s.len ELSE n]

\* s.trim(): the text " " is whitespace only, the text " x" starts with one
\* blank, the other texts have no whitespace.
Trim(s) ==
    IF s.base = " " THEN EmptyStr
    ELSE IF s.base = " x" THEN (IF s.len <= 1 THEN EmptyStr ELSE S("x", s.len - 1))
    ELSE s

\* v ?? d
Nullish(v, d) == IF v = Nil THEN d ELSE v

\* v.toString() / String(v) of a non-nullish value
JsString(v) == IF v.type = "num" THEN S(v.base, v.len) ELSE v

\* v?.slice(0, n): undefined for a nullish v, a TypeError for a number.
OptSlice(v, n) ==
    IF v = Nil THEN Nil
    ELSE IF v.type = "str" THEN Slice(v, n)
    ELSE Throw

\* typeof v === "string" ? v.slice(0, n) : null
StrSliceOrNull(v, n) == IF v.type = "str" THEN Slice(v, n) ELSE Nil

\* Fault variant: the parameter overwrites the column even when it is NULL.
Coalesce_Overwrite(p, old) == p

\* SQL COALESCE(p, old)
Coalesce(p, old) == IF p = Nil THEN old ELSE p

\* The per-language placeholder title of a new course.
Placeholder(lang) ==
    CASE lang = "ru" -> S("Novyj kurs", 10)
      [] lang = "en" -> S("New Course", 10)
      [] OTHER -> S("qurs xadash", 8)

\* The request bodies: <<title, description or summary>>.  Requests that run
\* concurrently carry a title or both fields; requests that run one after the
\* other also carry a description alone, no field, numbers, a blank title or
\* a title that starts with a blank.
ConcurrentBodies ==
    { <<S("a", 1), Nil>>, <<S("b", 121), S("e", 4001)>> }
SequentialBodies ==
    ConcurrentBodies \cup
    { <<Nil, S("d", 3000)>>, <<Nil, Nil>>, <<Num, Num>>, <<S(" ", 2), Nil>>,
      <<S(" x", 122), S("d", 3000)>> }

\* An id that is not a UUID, and isUUID.
BadId == 0 - 1
IsUUID(id) == id # BadId

\* A body that req.json() cannot parse.
BadJson == [type |-> "badjson", base |-> "", len |-> 0]

\* The language a GET takes from its query string: searchParams.get("lang") || "ru".
QueryLang(lang) == IF lang = "" THEN "ru" ELSE lang

\* ------------------------------------------------------------------- state

VARIABLES
    course,          \* committed course rows: id -> [owner_id, supported_langs, updated_at]
    course_locale,   \* committed course_locale rows, in insertion order
    module,          \* committed module rows, in insertion order
    module_locale,   \* committed module_locale rows, in insertion order
    req,             \* each handler's request
    pc,              \* each handler's position
    client,          \* the pooled connection a handler holds (0: none)
    txn,             \* the uncommitted writes of the handler's transaction
    ownerConn,       \* the connection the ownership query ran on (0: not run)
    nextOrder,       \* Create Module's local nextOrder
    rowCount,        \* the rowCount the handler last read (-1: none yet)
    poolMax,         \* the size of the connection pool
    workload,        \* the requests served: "courses" or "modules" (the handlers
                     \* overlap), or "sequential" (any route, one at a time), or
                     \* "faulty" (any route, one at a time, well-formed requests),
                     \* or "mixed" (reads and writes of courses overlap)
    resp,            \* the response sent (status 0: none yet)
    page,            \* the course page's state: lang, data, outline
    fetches,         \* the course page's requests in flight, in the order sent
    writes           \* the number of write requests the page's user has submitted

vars == <<course, course_locale, module, module_locale,
          req, pc, client, txn, ownerConn, nextOrder, rowCount, poolMax, workload, resp,
          page, fetches, writes>>

\* The browser's side.
pageVars == <<page, fetches, writes>>

\* The route handlers' side, the store apart.
serverVars == <<req, pc, client, txn, ownerConn, nextOrder, rowCount, poolMax, workload, resp>>

db == <<course, course_locale, module, module_locale>>

NoReq == [kind |-> "none", id |-> 0, lang |-> "", title |-> Nil, desc |-> Nil]
\* locale: null
NullLocale == [lang |-> "", title |-> Nil, description |-> Nil]
\* The JSON a GET answers with: the fields of Fetch Course, and the rows of
\* Fetch Outline and List Courses.
NoData == [supported_langs |-> <<>>, updated_at |-> 0, available_langs |-> <<>>,
           requested_lang |-> "", missing |-> FALSE, locale |-> NullLocale, items |-> <<>>]
NoResp == [status |-> 0, id |-> 0, order_index |-> 0, err |-> "", data |-> NoData]

Response(st) == [NoResp EXCEPT !.status = st]

\* ------------------------------------------------------------------- store

CourseRow(owner, langs, upd) ==
    [owner_id |-> owner, supported_langs |-> langs, updated_at |-> upd]

LocaleRow(cid, lang, title, description) ==
    [course_id |-> cid, lang |-> lang, title |-> title, description |-> description]

ModuleRow(mid, cid, idx) == [id |-> mid, course_id |-> cid, order_index |-> idx]

ModuleLocaleRow(mid, lang, title, summary) ==
    [module_id |-> mid, lang |-> lang, title |-> title, summary |-> summary]

Range(s) == {s[i] : i \in 1..Len(s)}

\* The indexes of the course_locale rows of (cid, lang).
LocaleIdx(rows, cid, lang) ==
    {i \in 1..Len(rows) : rows[i].course_id = cid /\ rows[i].lang = lang}

ModuleLocaleIdx(rows, mid, lang) ==
    {i \in 1..Len(rows) : rows[i].module_id = mid /\ rows[i].lang = lang}

\* supported_langs ? lang
HasLang(langs, lang) == \E i \in 1..Len(langs) : langs[i] = lang

\* The writes a transaction holds until COMMIT.
InsCourse(id, row) == [t |-> "insCourse", id |-> id, lang |-> "", row |-> row]
InsLocale(row) == [t |-> "insLocale", id |-> row.course_id, lang |-> row.lang, row |-> row]
UpdCourse(id, row) == [t |-> "updCourse", id |-> id, lang |-> "", row |-> row]
\* An UPDATE of course_locale carries its parameters $3 and $4 (NULL: keep).
UpdLocale(row) == [t |-> "updLocale", id |-> row.course_id, lang |-> row.lang, row |-> row]

RECURSIVE ApplyCourse(_, _)
ApplyCourse(c, ops) ==
    IF ops = <<>> THEN c
    ELSE LET op == Head(ops)
             c1 == CASE op.t = "insCourse" -> (op.id :> op.row) @@ c
                     [] op.t = "updCourse" -> [c EXCEPT ![op.id] = op.row]
                     [] OTHER -> c
         IN  ApplyCourse(c1, Tail(ops))

RECURSIVE ApplyLocale(_, _)
ApplyLocale(rows, ops) ==
    IF ops = <<>> THEN rows
    ELSE LET op == Head(ops)
             r1 == CASE op.t = "insLocale" -> Append(rows, op.row)
                     [] op.t = "updLocale" ->
                          [i \in 1..Len(rows) |->
                              IF i \in LocaleIdx(rows, op.id, op.lang)
                              THEN [rows[i] EXCEPT
                                      !.title = Coalesce(op.row.title, @),
                                      !.description = Coalesce(op.row.description, @)]
                              ELSE rows[i]]
                     [] OTHER -> rows
         IN  ApplyLocale(r1, Tail(ops))

\* Another transaction holds an uncommitted write of kind t on (id, lang):
\* the statement waits for that transaction to end.
LockedByOther(r, t, id, lang) ==
    \E o \in Reqs \ {r} : \E i \in 1..Len(txn[o]) :
        txn[o][i].t = t /\ txn[o][i].id = id /\ txn[o][i].lang = lang

\* Course ids no committed or uncommitted row uses.
FreeCourseIds ==
    {c \in CourseIds :
        /\ c \notin DOMAIN course
        /\ \A o \in Reqs : \A i \in 1..Len(txn[o]) :
              ~(txn[o][i].t = "insCourse" /\ txn[o][i].id = c)}

FreeModuleIds == {m \in ModuleIds : \A i \in 1..Len(module) : module[i].id # m}

Min(set) == CHOOSE x \in set : \A y \in set : x <= y

\* -------------------------------------------------------------------- pool

FreeConns == {c \in 1..poolMax : \A r \in Reqs : client[r] # c}

\* One pooled connection that no handler holds; pool.connect() and
\* pool.query() both wait while there is none.
IdleConn == Min(FreeConns)

\* ------------------------------------------------------- handler plumbing

Goto(r, l) ==
    /\ pc' = [pc EXCEPT ![r] = l]
    /\ UNCHANGED pageVars

\* A handler takes the next request, of a route that belongs to the
\* workload; the handlers are interchangeable, so they start in order, and in
\* the sequential workload one at a time.
Idle(r, routes) ==
    /\ pc[r] = "idle"
    /\ \/ workload \in {routes, "sequential", "faulty"}
       \/ workload = "mixed" /\ routes \in {"courses", "reads"}
    /\ \A o \in Reqs : o < r =>
          IF workload \in {"sequential", "faulty"} THEN pc[o] = "done" ELSE pc[o] # "idle"

Bodies == IF workload = "sequential" THEN SequentialBodies ELSE ConcurrentBodies

\* The <<id, lang, body>> of the requests of a route whose ids are taken from
\* ids.  Requests that run one after the other also carry an id that is not a
\* UUID, a language outside ALLOWED, no language, and a body that is not JSON.
Inputs(ids) ==
    (ids \X ALLOWED \X Bodies)
    \cup (IF workload = "sequential"
          THEN {<<BadId, "ru", <<S("a", 1), Nil>>>>,
                <<Min(ids), "xx", <<S("a", 1), Nil>>>>,
                <<Min(ids), "", <<S("a", 1), Nil>>>>,
                <<Min(ids), "ru", <<BadJson, BadJson>>>>}
          ELSE {})

Request(k, id, lang, body) ==
    [kind |-> k, id |-> id, lang |-> lang, title |-> body[1], desc |-> body[2]]

\* return NextResponse.json(...) outside any transaction
Reply(r, rsp) ==
    /\ resp' = [resp EXCEPT ![r] = rsp]
    /\ pc' = [pc EXCEPT ![r] = "done"]
    /\ UNCHANGED pageVars

\* Fault variant: the handler has no finally block.
ReplyRelease_Leak(r, rsp) ==
    /\ Reply(r, rsp)
    /\ UNCHANGED client

\* The response is sent and the finally block releases the client.
ReplyRelease(r, rsp) ==
    /\ Reply(r, rsp)
    /\ client' = [client EXCEPT ![r] = 0]

\* const client = await pool.connect()
Connect(r, l) ==
    /\ FreeConns # {}
    /\ client' = [client EXCEPT ![r] = IdleConn]
    /\ Goto(r, l)

\* ---------------------------------------------------------- Create Course
\* POST /api/courses

SafeTitle(title, lang) == Slice(JsString(Nullish(title, Placeholder(lang))), TitleLimit)

SafeDesc(description) == Slice(JsString(Nullish(description, EmptyStr)), CreateDescLimit)

\* Course ids are handed out by the store; the model stops creating courses
\* when the ids run out.
CoursesInFlight ==
    Cardinality({o \in Reqs : req[o].kind = "CreateCourse" /\ pc[o] # "done"})

CC_Start(r) ==
    /\ Idle(r, "courses")
    /\ Cardinality(DOMAIN course) + CoursesInFlight < MaxCourses
    /\ \E in \in {i \in Inputs({0}) : i[1] = 0} :
          /\ req' = [req EXCEPT ![r] = Request("CreateCourse", 0, in[2], in[3])]
          /\ IF in[3][1] = BadJson \/ in[2] \notin ALLOWED
             THEN Reply(r, Response(400))
             ELSE Goto(r, "cc_connect") /\ UNCHANGED resp
    /\ UNCHANGED <<db, client, txn, ownerConn, nextOrder, rowCount, poolMax, workload>>

CC_Connect(r) ==
    /\ pc[r] = "cc_connect"
    /\ Connect(r, "cc_begin")
    /\ UNCHANGED <<db, req, txn, ownerConn, nextOrder, rowCount, poolMax, workload, resp>>

CC_Begin(r) ==
    /\ pc[r] = "cc_begin"
    /\ Goto(r, "cc_insCourse")
    /\ UNCHANGED <<db, req, client, txn, ownerConn, nextOrder, rowCount, poolMax, workload, resp>>

\* Fault variant: the course row is inserted outside the transaction.
CC_InsertCourse_Autocommit(r) ==
    /\ pc[r] = "cc_insCourse"
    /\ FreeCourseIds # {}
    /\ LET op == InsCourse(Min(FreeCourseIds), CourseRow(DEV_USER_ID, <<req[r].lang>>, 1))
       IN  /\ course' = (op.id :> op.row) @@ course
           /\ txn' = [txn EXCEPT ![r] = <<op>>]
    /\ Goto(r, "cc_insLocale")
    /\ UNCHANGED <<course_locale, module, module_locale, req, client, ownerConn, nextOrder,
                   rowCount, poolMax, workload, resp>>

CC_InsertCourse(r) ==
    /\ pc[r] = "cc_insCourse"
    /\ FreeCourseIds # {}
    /\ txn' = [txn EXCEPT ![r] =
                 <<InsCourse(Min(FreeCourseIds),
                             CourseRow(DEV_USER_ID, <<req[r].lang>>, 1))>>]
    /\ Goto(r, "cc_insLocale")
    /\ UNCHANGED <<db, req, client, ownerConn, nextOrder, rowCount, poolMax, workload, resp>>

CC_InsertLocale(r) ==
    /\ pc[r] = "cc_insLocale"
    /\ LET c == txn[r][1]
       IN  txn' = [txn EXCEPT ![r] =
                     Append(@, InsLocale(LocaleRow(c.id, req[r].lang,
                                                   SafeTitle(req[r].title, req[r].lang),
                                                   SafeDesc(req[r].desc))))]
    /\ Goto(r, "cc_commit")
    /\ UNCHANGED <<db, req, client, ownerConn, nextOrder, rowCount, poolMax, workload, resp>>

\* COMMIT makes the transaction's writes visible, all at once.
Commit(r) ==
    /\ course' = ApplyCourse(course, txn[r])
    /\ course_locale' = ApplyLocale(course_locale, txn[r])
    /\ txn' = [txn EXCEPT ![r] = <<>>]

\* ROLLBACK drops them.
Rollback(r) ==
    /\ txn' = [txn EXCEPT ![r] = <<>>]
    /\ UNCHANGED <<course, course_locale>>

CC_Commit(r) ==
    /\ pc[r] = "cc_commit"
    /\ Commit(r)
    /\ ReplyRelease(r, [Response(201) EXCEPT !.id = txn[r][1].id])
    /\ UNCHANGED <<module, module_locale, req, ownerConn, nextOrder, rowCount, poolMax, workload>>

CC_Catch(r) ==
    /\ pc[r] = "cc_catch"
    /\ Rollback(r)
    /\ ReplyRelease(r, [Response(500) EXCEPT !.err = "store_failure"])
    /\ UNCHANGED <<module, module_locale, req, ownerConn, nextOrder, rowCount, poolMax, workload>>

\* --------------------------------------------------- Create Course Locale
\* POST /api/courses/[id]/locale

\* Fault variant: the ownership query drops the owner_id condition.
OwnsCourse_AnyUser(cid, userId) == cid \in DOMAIN course

\* SELECT 1 FROM course WHERE id=$1 AND owner_id=$2, rows.length > 0
OwnsCourse(cid, userId) == cid \in DOMAIN course /\ course[cid].owner_id = userId

\* ensureOwner goes through pool.query: it runs on a pooled connection that
\* nobody holds, and reads committed rows only.
EnsureOwner(r, yes, no) ==
    /\ FreeConns # {}
    /\ ownerConn' = [ownerConn EXCEPT ![r] = IdleConn]
    /\ Goto(r, IF OwnsCourse(req[r].id, DEV_USER_ID) THEN yes ELSE no)

\* The store's uniqueness constraint on course_locale (course_id, lang).
CourseLocaleConflict(rows, cid, lang) == LocaleIdx(rows, cid, lang) # {}

\* Fault variant: the title is not trimmed.
Ttl_NoTrim(title) == JsString(Nullish(title, EmptyStr))

Ttl(title) == Trim(JsString(Nullish(title, EmptyStr)))

Desc(description) == JsString(Nullish(description, EmptyStr))

CCL_Start(r) ==
    /\ Idle(r, "courses")
    /\ \E in \in Inputs(CourseTargets) :
          /\ req' = [req EXCEPT ![r] = Request("CreateCourseLocale", in[1], in[2], in[3])]
          /\ IF ~IsUUID(in[1]) \/ in[3][1] = BadJson \/ in[2] \notin ALLOWED
                \/ Ttl(in[3][1]) = EmptyStr
             THEN Reply(r, Response(400))
             ELSE Goto(r, "ccl_connect") /\ UNCHANGED resp
    /\ UNCHANGED <<db, client, txn, ownerConn, nextOrder, rowCount, poolMax, workload>>

CCL_Connect(r) ==
    /\ pc[r] = "ccl_connect"
    /\ Connect(r, "ccl_begin")
    /\ UNCHANGED <<db, req, txn, ownerConn, nextOrder, rowCount, poolMax, workload, resp>>

CCL_Begin(r) ==
    /\ pc[r] = "ccl_begin"
    /\ Goto(r, "ccl_owner")
    /\ UNCHANGED <<db, req, client, txn, ownerConn, nextOrder, rowCount, poolMax, workload, resp>>

CCL_EnsureOwner(r) ==
    /\ pc[r] = "ccl_owner"
    /\ EnsureOwner(r, "ccl_exists", "ccl_rb403")
    /\ UNCHANGED <<db, req, client, txn, nextOrder, rowCount, poolMax, workload, resp>>

\* Fault variant: the result of the existence check is ignored.
CCL_AfterExists_Ignored(n) == "ccl_insert"

\* if (exists.rowCount) { ROLLBACK; 409 }
CCL_AfterExists(n) == IF n # 0 THEN "ccl_rb409" ELSE "ccl_insert"

CCL_Exists(r) ==
    /\ pc[r] = "ccl_exists"
    /\ LET n == Cardinality(LocaleIdx(course_locale, req[r].id, req[r].lang))
       IN  /\ rowCount' = [rowCount EXCEPT ![r] = n]
           /\ Goto(r, CCL_AfterExists(n))
    /\ UNCHANGED <<db, req, client, txn, ownerConn, nextOrder, poolMax, workload, resp>>

\* The INSERT waits for a transaction holding an uncommitted row of the same
\* key, and raises a unique violation against a committed one.
CCL_Insert(r) ==
    /\ pc[r] = "ccl_insert"
    /\ ~LockedByOther(r, "insLocale", req[r].id, req[r].lang)
    /\ IF CourseLocaleConflict(course_locale, req[r].id, req[r].lang)
       THEN /\ Goto(r, "ccl_catch")
            /\ resp' = [resp EXCEPT ![r].err = "unique_violation"]
            /\ UNCHANGED txn
       ELSE /\ txn' = [txn EXCEPT ![r] =
                         Append(@, InsLocale(LocaleRow(req[r].id, req[r].lang,
                                                       Slice(Ttl(req[r].title), TitleLimit),
                                                       Slice(Desc(req[r].desc), DescLimit))))]
            /\ Goto(r, "ccl_update")
            /\ UNCHANGED resp
    /\ UNCHANGED <<db, req, client, ownerConn, nextOrder, rowCount, poolMax, workload>>

\* Fault variant: the language is not appended.
AddLang_Keep(langs, lang) == langs

\* CASE WHEN NOT (supported_langs ? $2) THEN supported_langs || $3 ELSE supported_langs END
AddLang(langs, lang) == IF ~HasLang(langs, lang) THEN Append(langs, lang) ELSE langs

\* The UPDATE of the course row waits for a transaction that holds an
\* uncommitted update of it, then reads the committed row.
CCL_Update(r) ==
    /\ pc[r] = "ccl_update"
    /\ ~LockedByOther(r, "updCourse", req[r].id, "")
    /\ txn' = [txn EXCEPT ![r] =
                 IF req[r].id \in DOMAIN course
                 THEN Append(@, UpdCourse(req[r].id,
                        [course[req[r].id] EXCEPT
                           !.supported_langs = AddLang(@, req[r].lang),
                           !.updated_at = @ + 1]))
                 ELSE @]
    /\ Goto(r, "ccl_commit")
    /\ UNCHANGED <<db, req, client, ownerConn, nextOrder, rowCount, poolMax, workload, resp>>

CCL_Commit(r) ==
    /\ pc[r] = "ccl_commit"
    /\ Commit(r)
    /\ ReplyRelease(r, Response(201))
    /\ UNCHANGED <<module, module_locale, req, ownerConn, nextOrder, rowCount, poolMax, workload>>

CCL_Rollback(r) ==
    /\ pc[r] \in {"ccl_rb403", "ccl_rb409"}
    /\ Rollback(r)
    /\ ReplyRelease(r, Response(IF pc[r] = "ccl_rb403" THEN 403 ELSE 409))
    /\ UNCHANGED <<module, module_locale, req, ownerConn, nextOrder, rowCount, poolMax, workload>>

CCL_Catch(r) ==
    /\ pc[r] = "ccl_catch"
    /\ Rollback(r)
    /\ ReplyRelease(r, [resp[r] EXCEPT !.status = 500])
    /\ UNCHANGED <<module, module_locale, req, ownerConn, nextOrder, rowCount, poolMax, workload>>

\* --------------------------------------------------- Update Course Locale
\* PATCH /api/courses/[id]/locale

UCL_Start(r) ==
    /\ Idle(r, "courses")
    /\ \E in \in Inputs(CourseTargets) :
          /\ req' = [req EXCEPT ![r] = Request("UpdateCourseLocale", in[1], in[2], in[3])]
          /\ IF ~IsUUID(in[1]) \/ in[3][1] = BadJson \/ in[2] \notin ALLOWED
             THEN Reply(r, Response(400))
             ELSE Goto(r, "ucl_connect") /\ UNCHANGED resp
    /\ UNCHANGED <<db, client, txn, ownerConn, nextOrder, rowCount, poolMax, workload>>

UCL_Connect(r) ==
    /\ pc[r] = "ucl_connect"
    /\ Connect(r, "ucl_begin")
    /\ UNCHANGED <<db, req, txn, ownerConn, nextOrder, rowCount, poolMax, workload, resp>>

UCL_Begin(r) ==
    /\ pc[r] = "ucl_begin"
    /\ Goto(r, "ucl_owner")
    /\ UNCHANGED <<db, req, client, txn, ownerConn, nextOrder, rowCount, poolMax, workload, resp>>

UCL_EnsureOwner(r) ==
    /\ pc[r] = "ucl_owner"
    /\ EnsureOwner(r, "ucl_update", "ucl_rb403")
    /\ UNCHANGED <<db, req, client, txn, nextOrder, rowCount, poolMax, workload, resp>>

\* The parameters $3 and $4 of the UPDATE.
UCL_Title(title) == OptSlice(title, TitleLimit)

UCL_Desc(description) == OptSlice(description, DescLimit)

\* Fault variant: the row count of the UPDATE is ignored.
UCL_AfterUpdate_Ignored(n) == "ucl_commit"

\* Building the parameter array throws before the query is sent when a field
\* is not a string.  The UPDATE waits for a transaction that holds an
\* uncommitted update of the row; r.rowCount is the number of rows it matched.
\* if (!r.rowCount) { ROLLBACK; 404 }
UCL_AfterUpdate(n) == IF n = 0 THEN "ucl_rb404" ELSE "ucl_commit"

UCL_Update(r) ==
    /\ pc[r] = "ucl_update"
    /\ LET p3 == UCL_Title(req[r].title)
           p4 == UCL_Desc(req[r].desc)
           n == Cardinality(LocaleIdx(course_locale, req[r].id, req[r].lang))
       IN  IF p3 = Throw \/ p4 = Throw
           THEN /\ Goto(r, "ucl_catch")
                /\ resp' = [resp EXCEPT ![r].err = "type_error"]
                /\ UNCHANGED <<txn, rowCount>>
           ELSE /\ ~LockedByOther(r, "updLocale", req[r].id, req[r].lang)
                /\ txn' = [txn EXCEPT ![r] =
                             IF n = 0 THEN @
                             ELSE Append(@, UpdLocale(LocaleRow(req[r].id, req[r].lang, p3, p4)))]
                /\ rowCount' = [rowCount EXCEPT ![r] = n]
                /\ Goto(r, UCL_AfterUpdate(n))
                /\ UNCHANGED resp
    /\ UNCHANGED <<db, req, client, ownerConn, nextOrder, poolMax, workload>>

UCL_Commit(r) ==
    /\ pc[r] = "ucl_commit"
    /\ Commit(r)
    /\ ReplyRelease(r, Response(200))
    /\ UNCHANGED <<module, module_locale, req, ownerConn, nextOrder, rowCount, poolMax, workload>>

UCL_Rollback(r) ==
    /\ pc[r] \in {"ucl_rb403", "ucl_rb404"}
    /\ Rollback(r)
    /\ ReplyRelease(r, Response(IF pc[r] = "ucl_rb403" THEN 403 ELSE 404))
    /\ UNCHANGED <<module, module_locale, req, ownerConn, nextOrder, rowCount, poolMax, workload>>

UCL_Catch(r) ==
    /\ pc[r] = "ucl_catch"
    /\ Rollback(r)
    /\ ReplyRelease(r, [resp[r] EXCEPT !.status = 500])
    /\ UNCHANGED <<module, module_locale, req, ownerConn, nextOrder, rowCount, poolMax, workload>>

\* ---------------------------------------------------------- Create Module
\* POST /api/courses/[id]/modules; every query goes through pool.query and
\* commits by itself.

\* SELECT COALESCE(MAX(order_index), 0) FROM module WHERE course_id=$1
MaxOrder(rows, cid) ==
    LET idx == {rows[i].order_index : i \in {j \in 1..Len(rows) : rows[j].course_id = cid}}
    IN  IF idx = {} THEN 0 ELSE CHOOSE m \in idx : \A k \in idx : k <= m

\* Fault variant: the next index is the number of modules of the course plus 1.
NextOrder_Count(rows, cid) ==
    Cardinality({i \in 1..Len(rows) : rows[i].course_id = cid}) + 1

NextOrder(rows, cid) == MaxOrder(rows, cid) + 1

\* Module ids are handed out by the store; the model stops creating modules
\* when the ids run out.
ModulesInFlight ==
    Cardinality({o \in Reqs : req[o].kind = "CreateModule" /\ pc[o] # "done"})

CM_Start(r) ==
    /\ Idle(r, "modules")
    /\ Len(module) + ModulesInFlight < MaxModules
    /\ \E id \in CourseTargets \cup (IF workload = "sequential" THEN {BadId} ELSE {}) :
          /\ req' = [req EXCEPT ![r] = Request("CreateModule", id, "", <<Nil, Nil>>)]
          /\ IF ~IsUUID(id)
             THEN Reply(r, Response(400))
             ELSE Goto(r, "cm_course") /\ UNCHANGED resp
    /\ UNCHANGED <<db, client, txn, ownerConn, nextOrder, rowCount, poolMax, workload>>

\* Fault variant: a course the acting user does not own counts as missing too.
CM_CourseStatus_Forbidden(cid) ==
    IF cid \in DOMAIN course /\ course[cid].owner_id = DEV_USER_ID THEN 0 ELSE 403

\* if (!courseQ.rowCount) 404; if (courseQ.rows[0].owner_id !== DEV_USER_ID) 403
\* (0: the handler goes on)
CM_CourseStatus(cid) ==
    IF cid \notin DOMAIN course THEN 404
    ELSE IF course[cid].owner_id # DEV_USER_ID THEN 403
    ELSE 0

CM_Course(r) ==
    /\ pc[r] = "cm_course"
    /\ FreeConns # {}
    /\ IF CM_CourseStatus(req[r].id) # 0
       THEN Reply(r, Response(CM_CourseStatus(req[r].id)))
       ELSE Goto(r, "cm_max") /\ UNCHANGED resp
    /\ UNCHANGED <<db, req, client, txn, ownerConn, nextOrder, rowCount, poolMax, workload>>

CM_Max(r) ==
    /\ pc[r] = "cm_max"
    /\ FreeConns # {}
    /\ nextOrder' = [nextOrder EXCEPT ![r] = NextOrder(module, req[r].id)]
    /\ Goto(r, "cm_insert")
    /\ UNCHANGED <<db, req, client, txn, ownerConn, rowCount, poolMax, workload, resp>>

\* Fault variant: the store keeps (course_id, order_index) unique.
ModuleOrderConflict_Unique(rows, cid, idx) ==
    \E i \in 1..Len(rows) : rows[i].course_id = cid /\ rows[i].order_index = idx

\* The store has no uniqueness constraint on module (course_id, order_index):
\* order_index is "unique-in-practice" only.
ModuleOrderConflict(rows, cid, idx) == FALSE

CM_Insert(r) ==
    /\ pc[r] = "cm_insert"
    /\ FreeConns # {}
    /\ FreeModuleIds # {}
    /\ LET mid == Min(FreeModuleIds)
       IN  IF ModuleOrderConflict(module, req[r].id, nextOrder[r])
           THEN /\ Reply(r, [Response(500) EXCEPT !.err = "unique_violation"])
                /\ UNCHANGED module
           ELSE /\ module' = Append(module, ModuleRow(mid, req[r].id, nextOrder[r]))
                /\ Reply(r, [Response(201) EXCEPT !.id = mid, !.order_index = nextOrder[r]])
    /\ UNCHANGED <<course, course_locale, module_locale, req, client, txn, ownerConn,
                   nextOrder, rowCount, poolMax, workload>>

\* --------------------------------------------------- Create Module Locale
\* POST /api/modules/[id]/locale

\* SELECT 1 FROM module m JOIN course c ON c.id = m.course_id
\*  WHERE m.id = $1 AND c.owner_id = $2, rows.length > 0
OwnsModule(mid, userId) ==
    \E i \in 1..Len(module) :
        /\ module[i].id = mid
        /\ module[i].course_id \in DOMAIN course
        /\ course[module[i].course_id].owner_id = userId

\* Fault variant: ON CONFLICT (module_id, lang) DO UPDATE: the row is overwritten.
InsertModuleLocale_Upsert(rows, row) ==
    IF ModuleLocaleIdx(rows, row.module_id, row.lang) # {}
    THEN [i \in 1..Len(rows) |->
            IF i \in ModuleLocaleIdx(rows, row.module_id, row.lang) THEN row ELSE rows[i]]
    ELSE Append(rows, row)

\* Fault variant: the INSERT has no ON CONFLICT clause and no constraint stops it.
InsertModuleLocale_Always(rows, row) == Append(rows, row)

\* INSERT ... ON CONFLICT (module_id, lang) DO NOTHING
InsertModuleLocale(rows, row) ==
    IF ModuleLocaleIdx(rows, row.module_id, row.lang) # {} THEN rows ELSE Append(rows, row)

CML_Start(r) ==
    /\ Idle(r, "modules")
    /\ \E in \in Inputs(ModuleTargets) :
          /\ req' = [req EXCEPT ![r] = Request("CreateModuleLocale", in[1], in[2], in[3])]
          /\ IF ~IsUUID(in[1]) \/ in[3][1] = BadJson \/ in[2] \notin ALLOWED
                \/ Ttl(in[3][1]) = EmptyStr
             THEN Reply(r, Response(400))
             ELSE Goto(r, "cml_owner") /\ UNCHANGED resp
    /\ UNCHANGED <<db, client, txn, ownerConn, nextOrder, rowCount, poolMax, workload>>

CML_EnsureOwner(r) ==
    /\ pc[r] = "cml_owner"
    /\ FreeConns # {}
    /\ IF OwnsModule(req[r].id, DEV_USER_ID)
       THEN Goto(r, "cml_insert") /\ UNCHANGED resp
       ELSE Reply(r, Response(403))
    /\ UNCHANGED <<db, req, client, txn, ownerConn, nextOrder, rowCount, poolMax, workload>>

\* ins.rowCount is the number of rows the INSERT added.
CML_Insert(r) ==
    /\ pc[r] = "cml_insert"
    /\ FreeConns # {}
    /\ module_locale' =
          InsertModuleLocale(module_locale,
                             ModuleLocaleRow(req[r].id, req[r].lang,
                                             Slice(Ttl(req[r].title), TitleLimit),
                                             Slice(Desc(req[r].desc), DescLimit)))
    /\ rowCount' = [rowCount EXCEPT ![r] = Len(module_locale') - Len(module_locale)]
    /\ Reply(r, Response(IF rowCount'[r] = 0 THEN 409 ELSE 201))
    /\ UNCHANGED <<course, course_locale, module, req, client, txn, ownerConn,
                   nextOrder, poolMax, workload>>

\* --------------------------------------------------- Update Module Locale
\* PATCH /api/modules/[id]/locale

UML_Title(title) == StrSliceOrNull(title, TitleLimit)

UML_Summary(summary) == StrSliceOrNull(summary, DescLimit)

\* UPDATE module_locale SET title = COALESCE($3, title), summary = COALESCE($4, summary)
\*  WHERE module_id = $1 AND lang = $2
UpdateModuleLocale(rows, mid, lang, p3, p4) ==
    [i \in 1..Len(rows) |->
        IF i \in ModuleLocaleIdx(rows, mid, lang)
        THEN [rows[i] EXCEPT !.title = Coalesce(p3, @), !.summary = Coalesce(p4, @)]
        ELSE rows[i]]

UML_Start(r) ==
    /\ Idle(r, "modules")
    /\ \E in \in Inputs(ModuleTargets) :
          /\ req' = [req EXCEPT ![r] = Request("UpdateModuleLocale", in[1], in[2], in[3])]
          /\ IF ~IsUUID(in[1]) \/ in[3][1] = BadJson \/ in[2] \notin ALLOWED
             THEN Reply(r, Response(400))
             ELSE Goto(r, "uml_owner") /\ UNCHANGED resp
    /\ UNCHANGED <<db, client, txn, ownerConn, nextOrder, rowCount, poolMax, workload>>

UML_EnsureOwner(r) ==
    /\ pc[r] = "uml_owner"
    /\ FreeConns # {}
    /\ IF OwnsModule(req[r].id, DEV_USER_ID)
       THEN Goto(r, "uml_update") /\ UNCHANGED resp
       ELSE Reply(r, Response(403))
    /\ UNCHANGED <<db, req, client, txn, ownerConn, nextOrder, rowCount, poolMax, workload>>

UML_Update(r) ==
    /\ pc[r] = "uml_update"
    /\ FreeConns # {}
    /\ module_locale' = UpdateModuleLocale(module_locale, req[r].id, req[r].lang,
                                           UML_Title(req[r].title), UML_Summary(req[r].desc))
    /\ rowCount' = [rowCount EXCEPT ![r] =
                       Cardinality(ModuleLocaleIdx(module_locale, req[r].id, req[r].lang))]
    /\ Reply(r, Response(IF rowCount'[r] = 0 THEN 404 ELSE 200))
    /\ UNCHANGED <<course, course_locale, module, req, client, txn, ownerConn,
                   nextOrder, poolMax, workload>>

\* ------------------------------------------------------------------ reads

\* The <<id, lang>> of a GET: lang "" is a query string without lang.
QueryInputs(ids) ==
    (ids \X ALLOWED) \cup {<<BadId, "ru">>, <<Min(ids), "xx">>, <<Min(ids), "">>}

\* ORDER BY: the orders of the rows of set, each <<key, row>>, with the keys
\* ascending; rows with equal keys come in any order.
RECURSIVE SortedSeqs(_)
SortedSeqs(set) ==
    IF set = {} THEN {<<>>}
    ELSE LET first == {x \in set : \A y \in set : x[1] <= y[1]}
         IN  UNION {{<<x[2]>> \o t : t \in SortedSeqs(set \ {x})} : x \in first}

LangRank(lang) == CASE lang = "en" -> 1 [] lang = "he" -> 2 [] lang = "ru" -> 3 [] OTHER -> 4

\* ------------------------------------------------------------ Fetch Course
\* GET /api/courses/[id]

\* SELECT lang FROM course_locale WHERE course_id=$1 ORDER BY lang
AvailableLangs(rows, cid) ==
    LET idx == {i \in 1..Len(rows) : rows[i].course_id = cid}
        ord == CHOOSE q \in SortedSeqs({<<LangRank(rows[i].lang), i>> : i \in idx}) : TRUE
    IN  [k \in 1..Len(ord) |-> rows[ord[k]].lang]

\* Fault variant: the query leaves out lang=$2.
FetchedLocale_AnyLang(rows, cid, lang) ==
    LET idx == {i \in 1..Len(rows) : rows[i].course_id = cid}
    IN  IF idx = {} THEN NullLocale
        ELSE [lang |-> rows[Min(idx)].lang, title |-> rows[Min(idx)].title,
              description |-> rows[Min(idx)].description]

\* lr.rows[0] || null
FetchedLocale(rows, cid, lang) ==
    LET idx == LocaleIdx(rows, cid, lang)
    IN  IF idx = {} THEN NullLocale
        ELSE [lang |-> lang, title |-> rows[Min(idx)].title,
              description |-> rows[Min(idx)].description]

FC_Start(r) ==
    /\ Idle(r, "reads")
    /\ \E in \in QueryInputs(CourseTargets) :
          /\ req' = [req EXCEPT ![r] = Request("FetchCourse", in[1], in[2], <<Nil, Nil>>)]
          /\ IF QueryLang(in[2]) \notin ALLOWED \/ ~IsUUID(in[1])
             THEN Reply(r, Response(400))
             ELSE Goto(r, "fc_connect") /\ UNCHANGED resp
    /\ UNCHANGED <<db, client, txn, ownerConn, nextOrder, rowCount, poolMax, workload>>

FC_Connect(r) ==
    /\ pc[r] = "fc_connect"
    /\ Connect(r, "fc_course")
    /\ UNCHANGED <<db, req, txn, ownerConn, nextOrder, rowCount, poolMax, workload, resp>>

FC_Course(r) ==
    /\ pc[r] = "fc_course"
    /\ IF req[r].id \notin DOMAIN course
       THEN ReplyRelease(r, Response(404))
       ELSE /\ resp' = [resp EXCEPT
                          ![r].data.supported_langs = course[req[r].id].supported_langs,
                          ![r].data.updated_at = course[req[r].id].updated_at]
            /\ Goto(r, "fc_langs")
            /\ UNCHANGED client
    /\ UNCHANGED <<db, req, txn, ownerConn, nextOrder, rowCount, poolMax, workload>>

FC_Langs(r) ==
    /\ pc[r] = "fc_langs"
    /\ resp' = [resp EXCEPT ![r].data.available_langs = AvailableLangs(course_locale, req[r].id)]
    /\ Goto(r, "fc_locale")
    /\ UNCHANGED <<db, req, client, txn, ownerConn, nextOrder, rowCount, poolMax, workload>>

FC_Locale(r) ==
    /\ pc[r] = "fc_locale"
    /\ LET lang == QueryLang(req[r].lang)
           locale == FetchedLocale(course_locale, req[r].id, lang)
       IN  ReplyRelease(r, [resp[r] EXCEPT !.status = 200,
                                           !.id = req[r].id,
                                           !.data.requested_lang = lang,
                                           !.data.missing = (locale = NullLocale),
                                           !.data.locale = locale])
    /\ UNCHANGED <<db, req, txn, ownerConn, nextOrder, rowCount, poolMax, workload>>

\* ----------------------------------------------------------- Fetch Outline
\* GET /api/courses/[id]/outline

\* Fault variant: the join leaves out ml.lang = $2.
OutlineJoin_AnyLang(cid, lang) ==
    LET ms == {i \in 1..Len(module) : module[i].course_id = cid}
    IN  UNION {LET ls == {j \in 1..Len(module_locale) :
                             module_locale[j].module_id = module[i].id}
               IN  {<<module[i].order_index, <<i, j>>>> : j \in IF ls = {} THEN {0} ELSE ls}
               : i \in ms}

\* module m LEFT JOIN module_locale ml ON ml.module_id = m.id AND ml.lang = $2
\* WHERE m.course_id = $1: <<order_index, <<module row, locale row or 0>>>>
OutlineJoin(cid, lang) ==
    LET ms == {i \in 1..Len(module) : module[i].course_id = cid}
    IN  UNION {LET ls == ModuleLocaleIdx(module_locale, module[i].id, lang)
               IN  {<<module[i].order_index, <<i, j>>>> : j \in IF ls = {} THEN {0} ELSE ls}
               : i \in ms}

OutlineItem(p) ==
    [id |-> module[p[1]].id, order_index |-> module[p[1]].order_index,
     has_locale |-> p[2] # 0,
     title |-> IF p[2] # 0 THEN module_locale[p[2]].title ELSE Nil]

FO_Start(r) ==
    /\ Idle(r, "reads")
    /\ \E in \in QueryInputs(CourseTargets) :
          /\ req' = [req EXCEPT ![r] = Request("FetchOutline", in[1], in[2], <<Nil, Nil>>)]
          /\ IF ~IsUUID(in[1]) \/ QueryLang(in[2]) \notin ALLOWED
             THEN Reply(r, Response(400))
             ELSE Goto(r, "fo_query") /\ UNCHANGED resp
    /\ UNCHANGED <<db, client, txn, ownerConn, nextOrder, rowCount, poolMax, workload>>

FO_Query(r) ==
    /\ pc[r] = "fo_query"
    /\ FreeConns # {}
    /\ \E rows \in SortedSeqs(OutlineJoin(req[r].id, QueryLang(req[r].lang))) :
          Reply(r, [Response(200) EXCEPT
                      !.data.requested_lang = QueryLang(req[r].lang),
                      !.data.items = [k \in 1..Len(rows) |-> OutlineItem(rows[k])]])
    /\ UNCHANGED <<db, req, client, txn, ownerConn, nextOrder, rowCount, poolMax, workload>>

\* ------------------------------------------------------------ List Courses
\* GET /api/courses

\* course c JOIN course_locale l ON l.course_id = c.id
\* WHERE l.lang = $1 AND c.owner_id = $2 ORDER BY c.updated_at DESC
CourseJoin(lang, userId) ==
    {<<0 - course[course_locale[j].course_id].updated_at, j>> :
        j \in {k \in 1..Len(course_locale) :
                 /\ course_locale[k].lang = lang
                 /\ course_locale[k].course_id \in DOMAIN course
                 /\ course[course_locale[k].course_id].owner_id = userId}}

CourseItem(j) ==
    [id |-> course_locale[j].course_id, lang |-> course_locale[j].lang,
     title |-> course_locale[j].title, description |-> course_locale[j].description,
     supported_langs |-> course[course_locale[j].course_id].supported_langs,
     updated_at |-> course[course_locale[j].course_id].updated_at]

LC_Start(r) ==
    /\ Idle(r, "reads")
    /\ \E lang \in ALLOWED \cup {"xx", ""} :
          /\ req' = [req EXCEPT ![r] = Request("ListCourses", 0, lang, <<Nil, Nil>>)]
          /\ IF QueryLang(lang) \notin ALLOWED
             THEN Reply(r, Response(400))
             ELSE Goto(r, "lc_query") /\ UNCHANGED resp
    /\ UNCHANGED <<db, client, txn, ownerConn, nextOrder, rowCount, poolMax, workload>>

LC_Query(r) ==
    /\ pc[r] = "lc_query"
    /\ FreeConns # {}
    /\ \E rows \in SortedSeqs(CourseJoin(QueryLang(req[r].lang), DEV_USER_ID)) :
          Reply(r, [Response(200) EXCEPT
                      !.data.items = [k \in 1..Len(rows) |-> CourseItem(rows[k])]])
    /\ UNCHANGED <<db, req, client, txn, ownerConn, nextOrder, rowCount, poolMax, workload>>

\* ------------------------------------------------------------ the system

\* The store as the process finds it: a course of the acting user and a
\* course of another user, each with the locale of its creation language.
InitCourse ==
    (1 :> CourseRow("u1", <<"ru">>, 1)) @@ (2 :> CourseRow("u2", <<"en">>, 1))

InitCourseLocale ==
    << LocaleRow(1, "ru", S("t", 5), S("u", 9)), LocaleRow(2, "en", S("t", 5), S("u", 9)) >>

\* Course 2 has one module; course 1 has modules at order 1, 2 and 5.
InitModule ==
    << ModuleRow(1, 2, 1), ModuleRow(2, 1, 1), ModuleRow(3, 1, 2), ModuleRow(4, 1, 5) >>

InitModuleLocale ==
    << ModuleLocaleRow(1, "en", S("t", 5), S("u", 9)),
       ModuleLocaleRow(2, "ru", S("t", 5), S("u", 9)) >>

InitTables ==
    /\ course = InitCourse
    /\ course_locale = InitCourseLocale
    /\ module = InitModule
    /\ module_locale = InitModuleLocale
    /\ req = [r \in Reqs |-> NoReq]
    /\ pc = [r \in Reqs |-> "idle"]
    /\ client = [r \in Reqs |-> 0]
    /\ txn = [r \in Reqs |-> <<>>]
    /\ ownerConn = [r \in Reqs |-> 0]
    /\ nextOrder = [r \in Reqs |-> 0]
    /\ rowCount = [r \in Reqs |-> -1]
    /\ resp = [r \in Reqs |-> NoResp]

\* No course page is open: the requests come from elsewhere.
NoPage ==
    /\ page = [lang |-> "ru", data |-> NoResp, outline |-> NoResp]
    /\ fetches = <<>>
    /\ writes = 0

InitStore ==
    /\ InitTables
    /\ NoPage
    /\ poolMax = PoolSize

Init ==
    /\ InitStore
    /\ workload \in {"courses", "modules"}

\* The steps that need neither a rejected statement nor a thrown error.
Handlers ==
    \E r \in Reqs :
        \/ CC_Start(r) \/ CC_Connect(r) \/ CC_Begin(r) \/ CC_InsertCourse(r)
        \/ CC_InsertLocale(r) \/ CC_Commit(r)
        \/ CCL_Start(r) \/ CCL_Connect(r) \/ CCL_Begin(r) \/ CCL_EnsureOwner(r)
        \/ CCL_Exists(r) \/ CCL_Insert(r) \/ CCL_Update(r) \/ CCL_Commit(r)
        \/ CCL_Rollback(r)
        \/ UCL_Start(r) \/ UCL_Connect(r) \/ UCL_Begin(r) \/ UCL_EnsureOwner(r)
        \/ UCL_Update(r) \/ UCL_Commit(r) \/ UCL_Rollback(r)
        \/ CM_Start(r) \/ CM_Course(r) \/ CM_Max(r) \/ CM_Insert(r)
        \/ CML_Start(r) \/ CML_EnsureOwner(r) \/ CML_Insert(r)
        \/ UML_Start(r) \/ UML_EnsureOwner(r) \/ UML_Update(r)

\* Requests that run together can hit the unique violation that sends Create
\* Course Locale to its catch block.
Next == Handlers \/ \E r \in Reqs : CCL_Catch(r)

Spec == Init /\ [][Next]_vars

InitSeq ==
    /\ InitStore
    /\ workload = "sequential"

\* Only the sequential workload carries the bodies whose fields are numbers,
\* which send Update Course Locale to its catch block.
\* The GET routes are served in the sequential workload.
Reads ==
    \E r \in Reqs :
        \/ FC_Start(r) \/ FC_Connect(r) \/ FC_Course(r) \/ FC_Langs(r) \/ FC_Locale(r)
        \/ FO_Start(r) \/ FO_Query(r)
        \/ LC_Start(r) \/ LC_Query(r)

NextSeq == Handlers \/ Reads \/ \E r \in Reqs : UCL_Catch(r)

SpecSeq == InitSeq /\ [][NextSeq]_vars

\* ---------------------------------------------------------- store failures
\* Any store interaction of a handler may throw.  Inside the try block of a
\* transactional handler the catch block runs next; Fetch Course and the
\* handlers that use pool.query answer 500 from their catch block at once
\* (and Fetch Course releases its client in finally).

InTry ==
    {"cc_begin", "cc_insCourse", "cc_insLocale", "cc_commit",
     "ccl_begin", "ccl_owner", "ccl_exists", "ccl_insert", "ccl_update", "ccl_commit",
     "ccl_rb403", "ccl_rb409",
     "ucl_begin", "ucl_owner", "ucl_update", "ucl_commit", "ucl_rb403", "ucl_rb404",
     "cm_course", "cm_max", "cm_insert", "cml_owner", "cml_insert",
     "uml_owner", "uml_update",
     "fc_course", "fc_langs", "fc_locale", "fo_query", "lc_query"}

CatchOf(l) ==
    CASE l \in {"cc_begin", "cc_insCourse", "cc_insLocale", "cc_commit"} -> "cc_catch"
      [] l \in {"ccl_begin", "ccl_owner", "ccl_exists", "ccl_insert", "ccl_update",
                "ccl_commit", "ccl_rb403", "ccl_rb409"} -> "ccl_catch"
      [] l \in {"ucl_begin", "ucl_owner", "ucl_update", "ucl_commit",
                "ucl_rb403", "ucl_rb404"} -> "ucl_catch"
      [] OTHER -> "done"

StoreFail(r) ==
    /\ pc[r] \in InTry
    /\ Goto(r, CatchOf(pc[r]))
    /\ resp' = [resp EXCEPT ![r] =
                  [@ EXCEPT !.err = "store_failure",
                            !.status = IF CatchOf(pc[r]) = "done" THEN 500 ELSE 0]]
    /\ client' = [client EXCEPT ![r] = IF CatchOf(pc[r]) = "done" THEN 0 ELSE @]
    /\ UNCHANGED <<db, req, txn, ownerConn, nextOrder, rowCount, poolMax, workload>>

\* The request ends with an exception no catch block of the route handles:
\* the framework answers 500 without the route's diagnostic.
Unhandled == [Response(500) EXCEPT !.err = "unhandled"]

\* const client = await pool.connect() stands before the try block.
ConnectFail(r) ==
    /\ pc[r] \in {"cc_connect", "ccl_connect", "ucl_connect", "fc_connect"}
    /\ Reply(r, Unhandled)
    /\ UNCHANGED <<db, req, client, txn, ownerConn, nextOrder, rowCount, poolMax, workload>>

\* client.query("ROLLBACK") throws inside the catch block: the exception
\* leaves the handler through finally, which releases the client.  The
\* connection is lost and the store drops its transaction.
RollbackFail(r) ==
    /\ pc[r] \in {"cc_catch", "ccl_catch", "ucl_catch"}
    /\ Rollback(r)
    /\ ReplyRelease(r, Unhandled)
    /\ UNCHANGED <<module, module_locale, req, ownerConn, nextOrder, rowCount, poolMax, workload>>

\* Overlapping requests whose statements inside the try block may fail.
NextF == Next \/ \E r \in Reqs : StoreFail(r) \/ CC_Catch(r) \/ UCL_Catch(r)

SpecF == Init /\ [][NextF]_vars

\* Every route, one request at a time, with store failures.
InitFSeq ==
    /\ InitStore
    /\ workload = "faulty"

\* Failures at every store interaction, also outside the try block.
NextFSeq ==
    \/ NextF
    \/ Reads
    \/ \E r \in Reqs : ConnectFail(r) \/ RollbackFail(r)

SpecFSeq == InitFSeq /\ [][NextFSeq]_vars

\* ------------------------------------------------- reads beside the writers
\* Fetch Course requests overlap Create Course Locale requests.
InitMixed ==
    /\ InitStore
    /\ workload = "mixed"

NextMixed ==
    \E r \in Reqs :
        \/ FC_Start(r) \/ FC_Connect(r) \/ FC_Course(r) \/ FC_Langs(r) \/ FC_Locale(r)
        \/ CCL_Start(r) \/ CCL_Connect(r) \/ CCL_Begin(r) \/ CCL_EnsureOwner(r)
        \/ CCL_Exists(r) \/ CCL_Insert(r) \/ CCL_Update(r) \/ CCL_Commit(r)
        \/ CCL_Rollback(r) \/ CCL_Catch(r)

SpecMixed == InitMixed /\ [][NextMixed]_vars

\* ------------------------------------------------------------ a small pool
\* As many requests in flight as the pool has connections (pg's Pool takes
\* max from its options; the limit is whatever the deployment sets).
InitPool ==
    /\ InitTables
    /\ NoPage
    /\ poolMax = Cardinality(Reqs)
    /\ workload \in {"courses", "modules"}

SpecPool == InitPool /\ [][Handlers]_vars

\* ---------------------------------------------------------- the course page
\* src/app/course/[id]/page.tsx: CoursePage of one course in one browser tab.
\* page.data and page.outline hold the JSON of the last response the page
\* kept (NoResp: null).  A request of the page is in flight from the call of
\* fetch until the code after its await has run; the route answers (as one
\* statement sequence of its handler, nothing else running on the server)
\* at the moment the request leaves fetches, and requests leave in any order.

\* params.id: the course of the page
PageCourse == 1

\* What the user types into a title field.
Typed == S("n", 3)

\* A request in flight with what the code after its await closes over: the
\* language of the render that sent it, the effect's cancel flag, the id in
\* its URL, the modal's mode, and the description in its body.
Fetch(kind, lang, id, mode, desc) ==
    [kind |-> kind, lang |-> lang, cancel |-> FALSE, id |-> id, mode |-> mode, desc |-> desc]

Without(seq, i) == SubSeq(seq, 1, i - 1) \o SubSeq(seq, i + 1, Len(seq))

\* loadOutline(course, lng) up to its await
LoadOutline(fs, cid, lang) == Append(fs, Fetch("outline", lang, cid, "", Nil))

\* The two effects of [courseId, lang]: the cleanup of the previous run sets
\* its cancel flag, then the course is fetched and loadOutline is called.
Effects(fs, lang) ==
    [k \in 1..Len(fs) |->
        IF fs[k].kind = "course" THEN [fs[k] EXCEPT !.cancel = TRUE] ELSE fs[k]]
    \o << Fetch("course", lang, PageCourse, "", Nil),
          Fetch("outline", lang, PageCourse, "", Nil) >>

\* The JSON of GET /api/courses/[id]?lang=
CourseJson(cid, lang) ==
    LET locale == FetchedLocale(course_locale, cid, lang)
    IN  [Response(200) EXCEPT
           !.id = cid,
           !.data.supported_langs = course[cid].supported_langs,
           !.data.updated_at = course[cid].updated_at,
           !.data.available_langs = AvailableLangs(course_locale, cid),
           !.data.requested_lang = lang,
           !.data.missing = (locale = NullLocale),
           !.data.locale = locale]

\* onChange of the language select: setLang(v), and the effects run again.
SelectLang(l) ==
    /\ workload = "page"
    /\ l # page.lang
    /\ Len(fetches) + 2 <= MaxInFlight
    /\ page' = [page EXCEPT !.lang = l]
    /\ fetches' = Effects(fetches, l)
    /\ UNCHANGED <<db, serverVars, writes>>

\* The first effect after its await: if (!cancel) { setData(j); loadOutline }
CourseLoaded(i) ==
    /\ i \in DOMAIN fetches
    /\ fetches[i].kind = "course"
    /\ fetches[i].id \in DOMAIN course
    /\ IF fetches[i].cancel
       THEN /\ fetches' = Without(fetches, i)
            /\ UNCHANGED page
       ELSE /\ page' = [page EXCEPT !.data = CourseJson(fetches[i].id, fetches[i].lang)]
            /\ fetches' = LoadOutline(Without(fetches, i), fetches[i].id, fetches[i].lang)
    /\ UNCHANGED <<db, serverVars, writes>>

\* loadOutline after its await: setOutline(j), whichever call it was.
OutlineLoaded(i) ==
    /\ i \in DOMAIN fetches
    /\ fetches[i].kind = "outline"
    /\ \E rows \in SortedSeqs(OutlineJoin(fetches[i].id, fetches[i].lang)) :
          page' = [page EXCEPT !.outline =
                     [Response(200) EXCEPT
                        !.data.requested_lang = fetches[i].lang,
                        !.data.items = [k \in 1..Len(rows) |-> OutlineItem(rows[k])]]]
    /\ fetches' = Without(fetches, i)
    /\ UNCHANGED <<db, serverVars, writes>>

\* A write the user may still submit.
MaySubmit ==
    /\ workload = "page"
    /\ page.data # NoResp
    /\ writes < MaxWrites
    /\ Len(fetches) < MaxInFlight

Submit(f) ==
    /\ fetches' = Append(fetches, f)
    /\ writes' = writes + 1
    /\ UNCHANGED <<db, serverVars, page>>

\* onClick of "+ Модуль": POST /api/courses/[id]/modules
AddModule ==
    /\ MaySubmit
    /\ Len(module) < MaxModules
    /\ Submit(Fetch("addModule", page.lang, page.data.id, "", Nil))

\* ... after its await: the toast, then await loadOutline(data.id, lang)
ModuleAdded(i) ==
    /\ i \in DOMAIN fetches
    /\ fetches[i].kind = "addModule"
    /\ FreeModuleIds # {}
    /\ IF CM_CourseStatus(fetches[i].id) # 0
       THEN /\ fetches' = Without(fetches, i)
            /\ UNCHANGED module
       ELSE /\ module' = Append(module, ModuleRow(Min(FreeModuleIds), fetches[i].id,
                                                  NextOrder(module, fetches[i].id)))
            /\ fetches' = LoadOutline(Without(fetches, i), fetches[i].id, fetches[i].lang)
    /\ UNCHANGED <<course, course_locale, module_locale, serverVars, page, writes>>

\* submitModuleLocale for the k-th item of the outline shown: the modal was
\* opened by the item's rename button when it has a locale and by its create
\* button when it has none.
SubmitModuleLocale(k) ==
    /\ MaySubmit
    /\ k \in 1..Len(page.outline.data.items)
    /\ Submit(Fetch("moduleLocale", page.lang, page.outline.data.items[k].id,
                    IF page.outline.data.items[k].has_locale THEN "rename" ELSE "create",
                    EmptyStr))

\* The status of POST (create) or PATCH (rename) of /api/modules/[id]/locale
ModuleLocaleStatus(f) ==
    IF ~OwnsModule(f.id, DEV_USER_ID) THEN 403
    ELSE IF f.mode = "create"
    THEN (IF ModuleLocaleIdx(module_locale, f.id, f.lang) # {} THEN 409 ELSE 201)
    ELSE (IF ModuleLocaleIdx(module_locale, f.id, f.lang) = {} THEN 404 ELSE 200)

\* ... and the module_locale rows it leaves.
ModuleLocaleWritten(f) ==
    IF ModuleLocaleStatus(f) = 201
    THEN InsertModuleLocale(module_locale,
                            ModuleLocaleRow(f.id, f.lang, Slice(Ttl(Typed), TitleLimit),
                                            Slice(Desc(f.desc), DescLimit)))
    ELSE IF ModuleLocaleStatus(f) = 200
    THEN UpdateModuleLocale(module_locale, f.id, f.lang, UML_Title(Typed), UML_Summary(Nil))
    ELSE module_locale

\* ... after its await: if (!res.ok) toast, else await loadOutline(data.id, lang)
ModuleLocaleSubmitted(i) ==
    /\ i \in DOMAIN fetches
    /\ fetches[i].kind = "moduleLocale"
    /\ module_locale' = ModuleLocaleWritten(fetches[i])
    /\ fetches' = IF ModuleLocaleStatus(fetches[i]) \in {200, 201}
                  THEN LoadOutline(Without(fetches, i), PageCourse, fetches[i].lang)
                  ELSE Without(fetches, i)
    /\ UNCHANGED <<course, course_locale, module, serverVars, page, writes>>

\* submitCourseLocale: the button is rendered while data.missing.
SubmitCourseLocale ==
    /\ MaySubmit
    /\ page.data.data.missing
    /\ Submit(Fetch("courseLocale", page.lang, page.data.id, "", EmptyStr))

\* ... after its await: window.location.href = `/course/${data.id}?lang=${lang}`
\* loads the page again, in that language; the requests of the document that
\* is left are aborted.
CourseLocaleSubmitted(i) ==
    /\ i \in DOMAIN fetches
    /\ fetches[i].kind = "courseLocale"
    /\ LET f == fetches[i]
       IN  IF ~OwnsCourse(f.id, DEV_USER_ID) \/ CourseLocaleConflict(course_locale, f.id, f.lang)
           THEN /\ fetches' = Without(fetches, i)
                /\ UNCHANGED <<course, course_locale, page>>
           ELSE /\ course_locale' =
                      Append(course_locale,
                             LocaleRow(f.id, f.lang, Slice(Ttl(Typed), TitleLimit),
                                       Slice(Desc(f.desc), DescLimit)))
                /\ course' = [course EXCEPT ![f.id] =
                                 [@ EXCEPT !.supported_langs = AddLang(@, f.lang),
                                           !.updated_at = @ + 1]]
                /\ page' = [lang |-> f.lang, data |-> NoResp, outline |-> NoResp]
                /\ fetches' = Effects(<<>>, f.lang)
    /\ UNCHANGED <<module, module_locale, serverVars, writes>>

\* LocaleEditor.save: the editor is rendered while data is not missing; its
\* lang is the page's, its description the one it was given.
Save ==
    /\ MaySubmit
    /\ ~page.data.data.missing
    /\ Submit(Fetch("save", page.lang, page.data.id, "",
                    Nullish(page.data.data.locale.description, EmptyStr)))

\* ... after its await: if (!res.ok) an error toast, else the toast "Сохранено"
Saved(i) ==
    /\ i \in DOMAIN fetches
    /\ fetches[i].kind = "save"
    /\ LET f == fetches[i]
       IN  course_locale' =
              IF OwnsCourse(f.id, DEV_USER_ID)
              THEN ApplyLocale(course_locale,
                               <<UpdLocale(LocaleRow(f.id, f.lang, UCL_Title(Typed),
                                                     UCL_Desc(f.desc)))>>)
              ELSE course_locale
    /\ fetches' = Without(fetches, i)
    /\ UNCHANGED <<course, module, module_locale, serverVars, page, writes>>

\* The page has mounted with ?lang absent: lang is "ru" and both effects ran.
InitPage ==
    /\ InitTables
    /\ poolMax = PoolSize
    /\ workload = "page"
    /\ page = [lang |-> "ru", data |-> NoResp, outline |-> NoResp]
    /\ fetches = Effects(<<>>, "ru")
    /\ writes = 0

NextPage ==
    \/ \E l \in ALLOWED : SelectLang(l)
    \/ AddModule \/ SubmitCourseLocale \/ Save
    \/ \E k \in 1..MaxModules : SubmitModuleLocale(k)
    \/ \E i \in 1..MaxInFlight :
          \/ CourseLoaded(i) \/ OutlineLoaded(i) \/ ModuleAdded(i)
          \/ ModuleLocaleSubmitted(i) \/ CourseLocaleSubmitted(i) \/ Saved(i)

SpecPage == InitPage /\ [][NextPage]_vars

\* -------------------------------------------------------------- properties

Done(r) == pc[r] = "done"

\* The step is one of handler r.
Steps(r) == pc'[r] # pc[r]

CourseLocaleKinds == {"CreateCourseLocale", "UpdateCourseLocale"}
ModuleLocaleKinds == {"CreateModuleLocale", "UpdateModuleLocale"}

\* C1: Create Course is atomic.  No committed state holds a course without the
\* locale row of its creation language (the first of supported_langs); the
\* step that answers 201 commits a new course whose supported_langs is exactly
\* <<language>> together with its one locale row; a Create Course that ends
\* otherwise (a store failure at any point, also between the two inserts)
\* changes no committed row.
C1_NoCourseWithoutLocale ==
    \A c \in DOMAIN course :
        /\ Len(course[c].supported_langs) >= 1
        /\ LocaleIdx(course_locale, c, course[c].supported_langs[1]) # {}

C1_Returns(r) ==
    (req[r].kind = "CreateCourse" /\ Steps(r) /\ pc'[r] = "done" /\ resp'[r].status = 201)
    => LET c == resp'[r].id
       IN  /\ c \notin DOMAIN course
           /\ c \in DOMAIN course'
           /\ course'[c].supported_langs = <<req[r].lang>>
           /\ course'[c].owner_id = DEV_USER_ID
           /\ Cardinality(LocaleIdx(course_locale', c, req[r].lang)) = 1
           /\ Len(course_locale') = Len(course_locale) + 1

C1_Fails(r) ==
    (req[r].kind = "CreateCourse" /\ Steps(r) /\ resp'[r].status # 201)
    => course' = course /\ course_locale' = course_locale

C1_CreateCourseAtomic ==
    /\ []C1_NoCourseWithoutLocale
    /\ [][\A r \in Reqs : C1_Returns(r) /\ C1_Fails(r)]_vars

\* A Create Course has answered 201 and its course is committed, after another
\* request naming the new course was refused while the course was uncommitted.
C1_Witness ==
    \E r, o \in Reqs :
        /\ req[r].kind = "CreateCourse" /\ Done(r) /\ resp[r].status = 201
        /\ resp[r].id \in DOMAIN course
        /\ o < r /\ req[o].kind \in CourseLocaleKinds /\ req[o].id = resp[r].id
        /\ Done(o) /\ resp[o].status = 403

\* C2: in every committed state, supported_langs of a course holds the
\* language of each of its course_locale rows.
C2_SupportedLangsSuperset ==
    \A i \in 1..Len(course_locale) :
        /\ course_locale[i].course_id \in DOMAIN course
        /\ HasLang(course[course_locale[i].course_id].supported_langs, course_locale[i].lang)

\* Two Create Course Locale requests for two languages of one course ran
\* together: one has committed while the other held its uncommitted insert,
\* and both have answered 201.
C2_Witness ==
    /\ workload = "courses"
    /\ \A r \in Reqs : req[r].kind = "CreateCourseLocale" /\ req[r].id = 1
                        /\ Done(r) /\ resp[r].status = 201
    /\ req[1].lang # req[2].lang
    /\ Len(course[1].supported_langs) = 3

\* C3: at most one course_locale row per (course, language) and at most one
\* module_locale row per (module, language).
C3_OneLocalePerLanguage ==
    /\ \A i, j \in 1..Len(course_locale) :
          (course_locale[i].course_id = course_locale[j].course_id
             /\ course_locale[i].lang = course_locale[j].lang) => i = j
    /\ \A i, j \in 1..Len(module_locale) :
          (module_locale[i].module_id = module_locale[j].module_id
             /\ module_locale[i].lang = module_locale[j].lang) => i = j

\* Two Create Module Locale requests for the same (module, language) have both
\* finished, one with 201 and one with 409.
C3_Witness ==
    /\ \A r \in Reqs : req[r].kind = "CreateModuleLocale" /\ Done(r)
    /\ req[1].id = req[2].id /\ req[1].lang = req[2].lang
    /\ {resp[1].status, resp[2].status} = {201, 409}

\* C4: when two Create Course Locale requests of the owner for the same
\* (course, language) have both passed the existence check (each read
\* rowCount 0), one answers 201 and the other 409, and one row is there.
C4_SecondWriterGetsConflict ==
    \A r, o \in Reqs :
        (/\ r # o
         /\ req[r].kind = "CreateCourseLocale" /\ req[o].kind = "CreateCourseLocale"
         /\ req[r].id = req[o].id /\ req[r].lang = req[o].lang
         /\ rowCount[r] = 0 /\ rowCount[o] = 0
         /\ Done(r) /\ Done(o))
        => /\ {resp[r].status, resp[o].status} = {201, 409}
           /\ Cardinality(LocaleIdx(course_locale, req[r].id, req[r].lang)) = 1

\* C5: a Create Course Locale of the owner for a (course, language) that has a
\* committed course_locale row never gets past the existence check: each of
\* its steps leaves course and course_locale as they are and its transaction
\* empty, and it ends with 409.  A committed row stays.
CCL_UpToExists == {"ccl_connect", "ccl_begin", "ccl_owner", "ccl_exists", "ccl_rb409"}

C5_Step(r) ==
    (/\ req[r].kind = "CreateCourseLocale"
     /\ pc[r] \in CCL_UpToExists
     /\ OwnsCourse(req[r].id, DEV_USER_ID)
     /\ LocaleIdx(course_locale, req[r].id, req[r].lang) # {}
     /\ Steps(r))
    => /\ pc'[r] \in CCL_UpToExists \cup {"done"}
       /\ pc'[r] = "done" => resp'[r].status = 409
       /\ course' = course
       /\ course_locale' = course_locale
       /\ txn'[r] = <<>>

C5_RowStays ==
    \A c \in CourseIds, l \in ALLOWED :
        LocaleIdx(course_locale, c, l) # {} => LocaleIdx(course_locale', c, l) # {}

C5_ExistingLocaleConflict == [][C5_RowStays /\ \A r \in Reqs : C5_Step(r)]_vars

\* A Create Course Locale of the owner has answered 409 for a row that is there.
C5_Witness ==
    \E r \in Reqs :
        /\ req[r].kind = "CreateCourseLocale" /\ Done(r) /\ resp[r].status = 409
        /\ OwnsCourse(req[r].id, DEV_USER_ID)
        /\ LocaleIdx(course_locale, req[r].id, req[r].lang) # {}

\* C6: while the course of a locale request (for a module locale, the course
\* of its module) belongs to another user, no step of the request changes a
\* committed row or writes in its transaction, and the request ends with 403.
ParentCourse(r) ==
    IF req[r].kind \in CourseLocaleKinds THEN {req[r].id}
    ELSE {module[i].course_id : i \in {j \in 1..Len(module) : module[j].id = req[r].id}}

NotOwner(r) ==
    \E c \in ParentCourse(r) : c \in DOMAIN course /\ course[c].owner_id # DEV_USER_ID

C6_Step(r) ==
    (/\ req[r].kind \in CourseLocaleKinds \cup ModuleLocaleKinds
     /\ pc[r] \notin {"idle", "done"}
     /\ NotOwner(r)
     /\ Steps(r))
    => /\ UNCHANGED db
       /\ txn'[r] = <<>>
       /\ pc'[r] = "done" => resp'[r].status = 403

C6_NonOwnerDenied == [][\A r \in Reqs : C6_Step(r)]_vars

\* Two locale requests on the course of another user have both answered 403:
\* a create for a locale row that exists and an update for one that does not.
C6_Witness ==
    \E r, o \in Reqs :
        /\ req[r].kind = "CreateCourseLocale" /\ req[o].kind = "UpdateCourseLocale"
        /\ NotOwner(r) /\ NotOwner(o)
        /\ Done(r) /\ Done(o) /\ resp[r].status = 403 /\ resp[o].status = 403
        /\ LocaleIdx(course_locale, req[r].id, req[r].lang) # {}
        /\ LocaleIdx(course_locale, req[o].id, req[o].lang) = {}

\* C7: in Create and Update Course Locale the ownership query runs on the
\* connection that holds the handler's transaction.
C7_OwnerCheckInTransaction ==
    \A r \in Reqs :
        (req[r].kind \in CourseLocaleKinds /\ ownerConn[r] # 0 /\ client[r] # 0)
        => ownerConn[r] = client[r]

\* C8: an Update Course Locale of the owner whose UPDATE finds no committed
\* row for (course, language) writes nothing and ends with 404.
WellFormed(r) == req[r].title.type \in {"str", "nil"} /\ req[r].desc.type \in {"str", "nil"}

C8_Step(r) ==
    (/\ req[r].kind = "UpdateCourseLocale"
     /\ WellFormed(r)
     /\ \/ pc[r] = "ucl_update" /\ LocaleIdx(course_locale, req[r].id, req[r].lang) = {}
        \/ pc[r] = "ucl_rb404"
     /\ Steps(r))
    => /\ UNCHANGED db
       /\ txn'[r] = <<>>
       /\ pc'[r] \in {"ucl_rb404", "done"}
       /\ pc'[r] = "done" => resp'[r].status = 404

C8_UpdateMissingLocale == [][\A r \in Reqs : C8_Step(r)]_vars

\* An Update Course Locale of the owner has answered 404 and the row is not there.
C8_Witness ==
    \E r \in Reqs :
        /\ req[r].kind = "UpdateCourseLocale" /\ Done(r) /\ resp[r].status = 404
        /\ OwnsCourse(req[r].id, DEV_USER_ID)
        /\ LocaleIdx(course_locale, req[r].id, req[r].lang) = {}

\* C9: an update that answers 200 sets each field the request carries as a
\* string to that string cut to its limit (120 for the title, 4000 for the
\* description or summary), keeps each field the request omits, and touches no
\* other row.
Supplied(field, old, limit) ==
    IF field.type = "str"
    THEN S(field.base, IF field.len > limit THEN limit ELSE field.len)
    ELSE old

C9_Course(r) ==
    (req[r].kind = "UpdateCourseLocale" /\ Steps(r) /\ resp'[r].status = 200)
    => /\ Len(course_locale') = Len(course_locale)
       /\ \A i \in 1..Len(course_locale) :
             course_locale'[i] =
                IF i \in LocaleIdx(course_locale, req[r].id, req[r].lang)
                THEN [course_locale[i] EXCEPT
                        !.title = Supplied(req[r].title, @, 120),
                        !.description = Supplied(req[r].desc, @, 4000)]
                ELSE course_locale[i]

C9_Module(r) ==
    (req[r].kind = "UpdateModuleLocale" /\ WellFormed(r) /\ Steps(r) /\ resp'[r].status = 200)
    => /\ Len(module_locale') = Len(module_locale)
       /\ \A i \in 1..Len(module_locale) :
             module_locale'[i] =
                IF i \in ModuleLocaleIdx(module_locale, req[r].id, req[r].lang)
                THEN [module_locale[i] EXCEPT
                        !.title = Supplied(req[r].title, @, 120),
                        !.summary = Supplied(req[r].desc, @, 4000)]
                ELSE module_locale[i]

C9_PartialUpdate == [][\A r \in Reqs : C9_Course(r) /\ C9_Module(r)]_vars

\* A title-only update of a course locale and a summary-only update of a
\* module locale have both answered 200; the description and the module
\* title are the ones the rows had before.
C9_Witness ==
    /\ req[1].kind = "UpdateCourseLocale" /\ resp[1].status = 200
    /\ req[1].title = S("a", 1) /\ req[1].desc = Nil
    /\ \E i \in LocaleIdx(course_locale, req[1].id, req[1].lang) :
          course_locale[i].title = S("a", 1) /\ course_locale[i].description = S("u", 9)
    /\ req[2].kind = "UpdateModuleLocale" /\ resp[2].status = 200
    /\ req[2].title = Nil /\ req[2].desc = S("d", 3000)
    /\ \E i \in ModuleLocaleIdx(module_locale, req[2].id, req[2].lang) :
          module_locale[i].title = S("t", 5) /\ module_locale[i].summary = S("d", 3000)

\* C10: a Create Module that overlaps no other request inserts one module row
\* whose order_index is 1 for a course without modules and otherwise 1 more
\* than the largest order_index of the course, so above every index in use;
\* the response carries that index.
CourseOrders(rows, cid) ==
    {rows[i].order_index : i \in {j \in 1..Len(rows) : rows[j].course_id = cid}}

C10_Step(r) ==
    (workload = "sequential" /\ req[r].kind = "CreateModule" /\ Steps(r)
       /\ resp'[r].status = 201)
    => LET used == CourseOrders(module, req[r].id)
           k == resp'[r].order_index
       IN  /\ Len(module') = Len(module) + 1
           /\ SubSeq(module', 1, Len(module)) = module
           /\ module'[Len(module')].course_id = req[r].id
           /\ module'[Len(module')].order_index = k
           /\ \A u \in used : u < k
           /\ IF used = {} THEN k = 1 ELSE k - 1 \in used

C10_NextOrderIndex == [][\A r \in Reqs : C10_Step(r)]_vars

\* Course 1 had modules at 1, 2 and 5; two Create Module requests, one after
\* the other, got 6 and 7.
C10_Witness ==
    /\ workload = "sequential"
    /\ \A r \in Reqs : req[r].kind = "CreateModule" /\ req[r].id = 1 /\ resp[r].status = 201
    /\ resp[1].order_index = 6 /\ resp[2].order_index = 7
    /\ CourseOrders(module, 1) = {1, 2, 5, 6, 7}

\* C11: Create Module reads the maximum and inserts in two separate steps with
\* no lock between them: the read sees the committed rows only, whatever other
\* Create Module requests are under way, and the insert always adds a row with
\* the index that was read and answers 201, also when a row of the course
\* already has that index.  (The reachable state C11_Witness shows two rows of
\* one course sharing an order_index.)
C11_Step(r) ==
    /\ (pc[r] = "cm_max" /\ Steps(r))
         => nextOrder'[r] = MaxOrder(module, req[r].id) + 1
    /\ (pc[r] = "cm_insert" /\ Steps(r))
         => /\ Len(module') = Len(module) + 1
            /\ module'[Len(module')].course_id = req[r].id
            /\ module'[Len(module')].order_index = nextOrder[r]
            /\ resp'[r].status = 201
            /\ resp'[r].order_index = nextOrder[r]

C11_UnlockedReadThenInsert == [][\A r \in Reqs : C11_Step(r)]_vars

\* Two Create Module requests on course 1 overlapped, both answered 201 with
\* order_index 6, and two module rows of course 1 carry 6.
C11_Witness ==
    /\ \A r \in Reqs : req[r].kind = "CreateModule" /\ req[r].id = 1
                        /\ Done(r) /\ resp[r].status = 201 /\ resp[r].order_index = 6
    /\ Cardinality({i \in 1..Len(module) :
                      module[i].course_id = 1 /\ module[i].order_index = 6}) = 2

\* C12: the insert of Create Module Locale leaves module_locale as it is and
\* answers 409 when a row for (module, language) exists, and otherwise adds
\* its row and answers 201; of the Create Module Locale requests of the owner
\* for one (module, language) that reached the insert, none answers 201 when
\* the row was there before them, and exactly one does otherwise.
C12_Step(r) ==
    (pc[r] = "cml_insert" /\ Steps(r))
    => IF ModuleLocaleIdx(module_locale, req[r].id, req[r].lang) # {}
       THEN module_locale' = module_locale /\ resp'[r].status = 409
       ELSE /\ Len(module_locale') = Len(module_locale) + 1
            /\ SubSeq(module_locale', 1, Len(module_locale)) = module_locale
            /\ resp'[r].status = 201

C12_Inserted(r) ==
    req[r].kind = "CreateModuleLocale" /\ Done(r) /\ resp[r].status \in {201, 409}

C12_OneWinner ==
    \A r \in Reqs :
        C12_Inserted(r) =>
            LET same == {o \in Reqs : /\ C12_Inserted(o)
                                      /\ req[o].id = req[r].id /\ req[o].lang = req[r].lang}
                won == {o \in same : resp[o].status = 201}
            IN  IF ModuleLocaleIdx(InitModuleLocale, req[r].id, req[r].lang) # {}
                THEN won = {}
                ELSE Cardinality(won) = 1

C12_ModuleLocaleConflict == []C12_OneWinner /\ [][\A r \in Reqs : C12_Step(r)]_vars

\* Two overlapping Create Module Locale requests with different titles for one
\* (module, language): the second to insert answered 409 and the row holds the
\* title of the first.
C12_Witness ==
    /\ \A r \in Reqs : req[r].kind = "CreateModuleLocale" /\ Done(r)
    /\ req[1].id = req[2].id /\ req[1].lang = req[2].lang
    /\ req[1].title # req[2].title
    /\ resp[1].status = 409 /\ resp[2].status = 201
    /\ \E i \in ModuleLocaleIdx(module_locale, req[2].id, req[2].lang) :
          module_locale[i].title = Slice(req[2].title, 120)

\* C13: a Fetch Outline that answers 200 lists exactly the modules of the
\* course, each once, by ascending order_index; an item has has_locale and
\* the title of the module_locale row of (module, requested language) when
\* that row exists, and has_locale false and a null title otherwise.
C13_Step(r) ==
    (req[r].kind = "FetchOutline" /\ Steps(r) /\ resp'[r].status = 200)
    => LET items == resp'[r].data.items
           lang == QueryLang(req[r].lang)
           ms == {i \in 1..Len(module) : module[i].course_id = req[r].id}
       IN  /\ Len(items) = Cardinality(ms)
           /\ \A i \in ms : \E k \in 1..Len(items) :
                 /\ items[k].id = module[i].id
                 /\ items[k].order_index = module[i].order_index
                 /\ LET ls == {j \in 1..Len(module_locale) :
                                 /\ module_locale[j].module_id = module[i].id
                                 /\ module_locale[j].lang = lang}
                    IN  IF ls = {}
                        THEN items[k].has_locale = FALSE /\ items[k].title = Nil
                        ELSE /\ items[k].has_locale = TRUE
                             /\ \E j \in ls : items[k].title = module_locale[j].title
           /\ \A k \in 1..(Len(items) - 1) : items[k].order_index <= items[k + 1].order_index
           /\ UNCHANGED db

C13_FetchOutline == [][\A r \in Reqs : C13_Step(r)]_vars

\* Module 2 of course 1 got an "en" locale next to its "ru" one; the outline of
\* course 1 in "en" then lists the modules at 1, 2 and 5, the first with the
\* new title and the others without a locale.
C13_Witness ==
    /\ req[1].kind = "CreateModuleLocale" /\ req[1].id = 2 /\ req[1].lang = "en"
    /\ req[1].title = S("b", 121) /\ resp[1].status = 201
    /\ req[2].kind = "FetchOutline" /\ req[2].id = 1 /\ req[2].lang = "en"
    /\ resp[2].status = 200
    /\ [k \in 1..Len(resp[2].data.items) |-> resp[2].data.items[k].order_index] = <<1, 2, 5>>
    /\ resp[2].data.items[1].has_locale /\ resp[2].data.items[1].title = S("b", 120)
    /\ ~resp[2].data.items[2].has_locale /\ resp[2].data.items[2].title = Nil

\* A Create Course Locale answered 201 and the Fetch Course that came next,
\* for the same course and language, answered 200.
C14_RoundTrip ==
    /\ req[1].kind = "CreateCourseLocale" /\ resp[1].status = 201
    /\ req[1].title.type = "str"
    /\ req[2].kind = "FetchCourse" /\ resp[2].status = 200
    /\ req[2].id = req[1].id /\ QueryLang(req[2].lang) = req[1].lang

C14_Description ==
    IF req[1].desc.type = "str"
    THEN [req[1].desc EXCEPT !.len = IF @ > 4000 THEN 4000 ELSE @]
    ELSE EmptyStr

\* C14 as stated: the fetched title is the title of the request cut to 120
\* characters, the fetched description its description cut to 4000.
C14_ExactTitle ==
    C14_RoundTrip =>
        /\ resp[2].data.missing = FALSE
        /\ resp[2].data.locale.title =
              [req[1].title EXCEPT !.len = IF @ > 120 THEN 120 ELSE @]
        /\ resp[2].data.locale.description = C14_Description

\* C14, amended: the fetched title is the title of the request with the
\* surrounding whitespace removed and then cut to 120 characters; the fetched
\* description is the description of the request (the empty string when it
\* has none) cut to 4000 characters; missing is false.
C14_TrimmedTitle ==
    C14_RoundTrip =>
        /\ resp[2].data.missing = FALSE
        /\ resp[2].data.locale.lang = req[1].lang
        /\ resp[2].data.locale.title =
              LET t == Trim(req[1].title)
              IN  [t EXCEPT !.len = IF @ > 120 THEN 120 ELSE @]
        /\ resp[2].data.locale.description = C14_Description

\* The round trip of a title of 122 characters that starts with a blank: the
\* fetched title is the 120 characters after the blank.
C14_Witness ==
    /\ C14_RoundTrip
    /\ req[1].title = S(" x", 122)
    /\ resp[2].data.locale.title = S("x", 120)
    /\ resp[2].data.locale.description = S("d", 3000)

\* C15: a request of a route that takes a language (in the body of a POST or
\* PATCH, in the query string of a GET) whose language is not one of ru, en,
\* he is answered with 400 by its first step, which acquires no connection
\* and reads and writes no table; a request that was answered takes no
\* further step.
LangRoutes ==
    {"ListCourses", "CreateCourse", "FetchCourse", "CreateCourseLocale", "UpdateCourseLocale",
     "FetchOutline", "CreateModuleLocale", "UpdateModuleLocale"}

GetRoutes == {"ListCourses", "FetchCourse", "FetchOutline"}

C15_BadLang(q) ==
    /\ q.kind \in LangRoutes
    /\ (IF q.kind \in GetRoutes /\ q.lang = "" THEN "ru" ELSE q.lang) \notin {"ru", "en", "he"}

C15_Step(r) ==
    /\ (pc[r] = "idle" /\ Steps(r) /\ C15_BadLang(req'[r]))
         => /\ pc'[r] = "done"
            /\ resp'[r].status = 400
            /\ UNCHANGED <<db, client, txn, ownerConn, rowCount>>
    /\ pc[r] = "done" => (pc'[r] = "done" /\ resp'[r] = resp[r] /\ client'[r] = client[r])

C15_InvalidLangRejected == [][\A r \in Reqs : C15_Step(r)]_vars

\* A Fetch Course with lang=xx and an Update Module Locale with no language
\* were both answered 400.
C15_Witness ==
    /\ req[1].kind = "FetchCourse" /\ req[1].lang = "xx" /\ resp[1].status = 400
    /\ req[2].kind = "UpdateModuleLocale" /\ req[2].lang = "" /\ resp[2].status = 400
    /\ IsUUID(req[1].id) /\ IsUUID(req[2].id)
    /\ pc = [r \in Reqs |-> "done"]

\* C16: a request whose id is not a UUID, whose body is not JSON, whose title
\* or description (summary) is not a string, or whose required title is
\* missing or blank, is answered with 400.
C16_Invalid(q) ==
    \/ q.kind \notin {"none", "CreateCourse", "ListCourses"} /\ ~IsUUID(q.id)
    \/ q.title = BadJson
    \/ q.title.type = "num" \/ q.desc.type = "num"
    \/ q.kind \in {"CreateCourseLocale", "CreateModuleLocale"}
         /\ (q.title = Nil \/ q.title.base = " ")

C16_InvalidInputRejected ==
    \A r \in Reqs : (Done(r) /\ C16_Invalid(req[r])) => resp[r].status = 400

\* C17: a request that met a store failure (at the acquisition of the
\* connection, BEGIN, a query, COMMIT or ROLLBACK) is answered by a catch
\* block of its route with 500 and a diagnostic, and its transaction is gone.
C17_StoreFailureCaught ==
    \A r \in Reqs :
        (Done(r) /\ resp[r].err \in {"store_failure", "unhandled"})
        => /\ resp[r].status = 500
           /\ resp[r].err = "store_failure"
           /\ txn[r] = <<>>

\* C18: a handler that has answered holds no connection, whatever its exit
\* (2xx, 403, 404, 409, a caught store failure, a ROLLBACK that fails in the
\* catch block); a connection a handler holds is given up once, in the step
\* that answers; no two handlers hold the same connection.
C18_NoneHeldWhenDone ==
    /\ \A r \in Reqs : Done(r) => client[r] = 0
    /\ \A r, o \in Reqs : (r # o /\ client[r] # 0) => client[r] # client[o]
    /\ (\A r \in Reqs : Done(r)) => FreeConns = 1..poolMax

C18_Step(r) ==
    (client[r] # 0 /\ client'[r] # client[r])
    => client'[r] = 0 /\ pc[r] # "done" /\ pc'[r] = "done"

C18_ConnectionReleased == []C18_NoneHeldWhenDone /\ [][\A r \in Reqs : C18_Step(r)]_vars

\* A Create Course Locale whose ROLLBACK failed in the catch block and a Fetch
\* Course that answered 200 have both finished, and every connection is free.
C18_Witness ==
    /\ req[1].kind = "CreateCourseLocale" /\ Done(1) /\ resp[1].err = "unhandled"
    /\ ownerConn[1] # 0
    /\ req[2].kind = "FetchCourse" /\ Done(2) /\ resp[2].status = 200
    /\ FreeConns = 1..poolMax

\* C19: Fetch Course writes nothing and asks for no owner.  With requests one
\* after the other it answers 404 exactly when no course has the id, and
\* otherwise 200: missing and a null locale exactly when the course has no
\* course_locale row of the requested language, else that row's language,
\* title and description; available_langs holds exactly the languages of the
\* course's locale rows.
C19_Step(r) ==
    (req[r].kind = "FetchCourse" /\ Steps(r))
    => /\ UNCHANGED db
       /\ txn'[r] = <<>> /\ ownerConn'[r] = 0
       /\ pc[r] = "fc_course" =>
             (req[r].id \notin DOMAIN course <=> (pc'[r] = "done" /\ resp'[r].status = 404))
       /\ resp'[r].status \in {0, 200, 400, 404}
       /\ resp'[r].status = 200 =>
             LET d == resp'[r].data
                 lang == IF req[r].lang = "" THEN "ru" ELSE req[r].lang
                 rows == {i \in 1..Len(course_locale) :
                            /\ course_locale[i].course_id = req[r].id
                            /\ course_locale[i].lang = lang}
             IN  /\ req[r].id \in DOMAIN course
                 /\ d.requested_lang = lang
                 /\ d.supported_langs = course[req[r].id].supported_langs
                 /\ d.missing <=> rows = {}
                 /\ d.missing => d.locale = NullLocale
                 /\ ~d.missing =>
                       \E i \in rows :
                          d.locale = [lang |-> lang, title |-> course_locale[i].title,
                                      description |-> course_locale[i].description]
                 /\ Range(d.available_langs) =
                       {course_locale[i].lang :
                          i \in {j \in 1..Len(course_locale) :
                                   course_locale[j].course_id = req[r].id}}

C19_FetchCourse == [][\A r \in Reqs : C19_Step(r)]_vars

\* Course 2 belongs to another user and has an "en" locale only: its fetch in
\* "ru" answered 200 with missing and a null locale; the fetch of course 3,
\* which nobody created, answered 404.
C19_Witness ==
    /\ req[1].kind = "FetchCourse" /\ req[1].id = 2 /\ req[1].lang = "ru"
    /\ course[2].owner_id # DEV_USER_ID
    /\ resp[1].status = 200 /\ resp[1].data.missing /\ resp[1].data.locale = NullLocale
    /\ resp[1].data.available_langs = <<"en">>
    /\ req[2].kind = "FetchCourse" /\ req[2].id = 3 /\ resp[2].status = 404
    /\ 3 \notin DOMAIN course

\* C20: in every committed state the supported_langs of a course holds no
\* language twice and only ru, en and he.
C20_SupportedLangsSet ==
    \A c \in DOMAIN course :
        LET langs == course[c].supported_langs
        IN  /\ \A i, j \in 1..Len(langs) : langs[i] = langs[j] => i = j
            /\ \A i \in 1..Len(langs) : langs[i] \in {"ru", "en", "he"}

\* Two overlapping Create Course Locale requests for ("en") of course 1 both
\* found no row; both have finished and supported_langs holds "en" once.
C20_Witness ==
    /\ \A r \in Reqs : req[r].kind = "CreateCourseLocale" /\ req[r].id = 1
                        /\ req[r].lang = "en" /\ rowCount[r] = 0 /\ Done(r)
    /\ course[1].supported_langs = <<"ru", "en">>

\* C22: Create Module answers 404 when no course row has the given id and 403
\* when the course exists and the acting user is not its owner (a missing
\* course is never answered with 403); the handler ends with that answer and
\* the step inserts no module row.  In every state, each module row that was
\* inserted belongs to an existing course of the acting user.
C22_Step(r) ==
    (req[r].kind = "CreateModule" /\ pc[r] = "cm_course" /\ Steps(r)) =>
        /\ req[r].id \notin DOMAIN course =>
              resp'[r].status = 404 /\ pc'[r] = "done" /\ module' = module
        /\ (req[r].id \in DOMAIN course /\ course[req[r].id].owner_id # "u1") =>
              resp'[r].status = 403 /\ pc'[r] = "done" /\ module' = module
        /\ resp'[r].status = 404 => req[r].id \notin DOMAIN course
        /\ resp'[r].status = 403 => req[r].id \in DOMAIN course

C22_InsertedForOwner ==
    \A i \in 1..Len(module) :
        \/ module[i] \in Range(InitModule)
        \/ module[i].course_id \in DOMAIN course /\ course[module[i].course_id].owner_id = "u1"

C22_CreateModuleRefused ==
    []C22_InsertedForOwner /\ [][\A r \in Reqs : C22_Step(r)]_vars

\* One Create Module named a course that does not exist and was answered 404,
\* the other named the course of another user and was answered 403, and the
\* module table is as it was.
C22_Witness ==
    /\ req[1].kind = "CreateModule" /\ req[1].id = 3 /\ 3 \notin DOMAIN course
    /\ Done(1) /\ resp[1].status = 404
    /\ req[2].kind = "CreateModule" /\ req[2].id = 2 /\ course[2].owner_id = "u2"
    /\ Done(2) /\ resp[2].status = 403
    /\ module = InitModule

\* C23: the step of Create Course that answers 201 leaves one course_locale
\* row for the new course whose title is the supplied title (the placeholder
\* of the language when the request has none) cut to 120 characters and whose
\* description is the supplied description cut to 4000 characters, so that a
\* description of at most 4000 characters is stored unchanged.
C23_Cut(s, n) == [s EXCEPT !.len = IF @ > n THEN n ELSE @]

C23_Step(r) ==
    (/\ req[r].kind = "CreateCourse" /\ Steps(r) /\ pc'[r] = "done" /\ resp'[r].status = 201
     /\ req[r].title.type \in {"str", "nil"} /\ req[r].desc.type = "str") =>
        \A i \in LocaleIdx(course_locale', resp'[r].id, req[r].lang) :
            /\ course_locale'[i].title =
                  C23_Cut(IF req[r].title = Nil THEN Placeholder(req[r].lang) ELSE req[r].title, 120)
            /\ course_locale'[i].description = C23_Cut(req[r].desc, 4000)
            /\ req[r].desc.len <= 4000 => course_locale'[i].description = req[r].desc

C23_DescriptionCutAt4000 == [][\A r \in Reqs : C23_Step(r)]_vars

\* C24: with a bounded pool, overlapping Create and Update Course Locale
\* requests never reach a state where every pooled connection is held by a
\* handler that is waiting, in its ownership check, for another pooled
\* connection.
C24_WaitsForPool(r) ==
    /\ pc[r] \in {"ccl_owner", "ucl_owner"}
    /\ client[r] # 0
    /\ FreeConns = {}

C24_NoPoolDeadlock ==
    ~(\A c \in 1..poolMax : \E r \in Reqs : client[r] = c /\ C24_WaitsForPool(r))

\* C25: every Fetch Course answered with 200 is consistent in itself, also
\* when a Create Course Locale of the same course commits while it runs:
\* missing is false exactly when requested_lang is one of available_langs,
\* and every language of available_langs is one of the supported_langs
\* returned.
C25_Consistent(d) ==
    /\ (d.missing = FALSE) <=> HasLang(d.available_langs, d.requested_lang)
    /\ \A i \in 1..Len(d.available_langs) : HasLang(d.supported_langs, d.available_langs[i])

C25_ConsistentResponse ==
    \A r \in Reqs :
        (req[r].kind = "FetchCourse" /\ Done(r) /\ resp[r].status = 200)
            => C25_Consistent(resp[r].data)

\* C21: in the course page, the step in which a write request succeeds
\* (create module, create or rename module locale, create course locale, save
\* of the course locale in the inline editor) sends the request that fetches
\* the data it changed again: the outline after a write to a module or a
\* module locale, the course after a write to a course locale; or it loads
\* the page anew, which fetches both.
C21_Sent(fs, kind) ==
    Cardinality({j \in DOMAIN fs : fs[j].kind = kind /\ ~fs[j].cancel})

C21_Reloaded ==
    /\ page'.data = NoResp /\ page'.outline = NoResp
    /\ fetches' = Effects(<<>>, page'.lang)

C21_Step ==
    /\ (module' # module \/ module_locale' # module_locale) =>
          \/ C21_Sent(fetches', "outline") > C21_Sent(fetches, "outline")
          \/ C21_Reloaded
    /\ course_locale' # course_locale =>
          \/ C21_Sent(fetches', "course") > C21_Sent(fetches, "course")
          \/ C21_Reloaded

C21_WriteThenRefetch == [][C21_Step]_vars

\* C26: in the course page, when no request of the page is in flight, the
\* outline shown is the outline of the selected language and the course data
\* shown is the data fetched for the selected language.
C26_ShowsSelectedLang ==
    fetches = <<>> =>
        /\ page.outline # NoResp => page.outline.data.requested_lang = page.lang
        /\ page.data # NoResp => page.data.data.requested_lang = page.lang
====
